---- MODULE Spec2Model ----
(***************************************************************************)
(* A model of tgbot/handlers/download.py: DownloadTask.long_task with its  *)
(* retried download_document and send_file, and DownloadHandler.handler.   *)
(*                                                                         *)
(* Spec         one DownloadTask from the moment long_task starts until    *)
(*              its done callback has run.  Every await of long_task is    *)
(*              one action; its outcome (a result, an exception kind, or   *)
(*              the CancelledError of an external task.cancel()) is drawn  *)
(*              with \E.                                                   *)
(* HandlerSpec  several DownloadHandler.handler invocations of one chat,   *)
(*              interleaved at their awaits, with the tasks they schedule. *)
(*                                                                         *)
(* safe_execution, LongTask (schedule, external_cancel, the done callback),*)
(* ProgressBar and user_manager are imported by download.py but their code *)
(* is not part of the sources at hand; they are modelled from the          *)
(* specification (sections 4.2, 4.5, 6 and 7).                             *)
(***************************************************************************)
EXTENDS Integers, Sequences, FiniteSets, TLC

\* ---------------------------------------------------------------- bounds
MaxChunks      == 2    \* chunks one get_iter stream yields at most
MaxCancels     == 1    \* external task.cancel() deliveries per task
MaxUpCallbacks == 1    \* upload-phase progress callbacks per task
NumHandlers    == 3    \* concurrent handler invocations of one chat

\* ------------------------------------------------------ program constants
FetchAttempts == 3     \* stop_after_attempt(3) on download_document
SendAttempts  == 3     \* stop_after_attempt(3) on send_file
TaskLimit     == 2     \* user_manager.hit_limits threshold

None      == "None"
Cancelled == "Cancelled"          \* asyncio.CancelledError (a BaseException)
Chunks    == {1, 2}               \* a chunk, named by its length in bytes
Keys      == {"k1", "k2", "k3"}       \* DownloadTask.task_id_for(document_holder)
TaskKey   == "k1"                 \* the key of the task that Spec follows
Handlers  == 1..NumHandlers

VARIABLES
    pc,                \* position of long_task
    pending,           \* exception in flight through the finally block
    durable,           \* database.get_cached_file(bot_name, cid)
    ephemeral,         \* telegram client's get_cached_file_id(cid)
    telegram_file_id,  \* local of long_task
    message,           \* progress_bar_download.message
    attempt,           \* tenacity attempt number of download_document
    sendAttempt,       \* tenacity attempt number of send_file
    collected,         \* download_document's bytearray, as its chunks
    file,              \* long_task's local: the payload returned
    registry,          \* user_manager's task keys of the chat
    hist,              \* what the collaborators observed of the task
    hpc,               \* position of each handler invocation
    hkey,              \* task id each handler invocation asks for
    hseen,             \* what has_task and hit_limits told each invocation
    tstate             \* the task each handler invocation scheduled

taskVars    == <<pc, pending, durable, ephemeral, telegram_file_id, message,
                 attempt, sendAttempt, collected, file, hist>>
handlerVars == <<hpc, hkey, hseen, tstate>>
vars        == <<pc, pending, durable, ephemeral, telegram_file_id, message,
                 attempt, sendAttempt, collected, file, registry, hist,
                 hpc, hkey, hseen, tstate>>

\* The observations start empty.
Hist0 ==
    [ lookups     |-> 0,      \* cache lookups completed
      hit         |-> FALSE,  \* the lookup returned a handle
      durableSeen |-> None,   \* what database.get_cached_file returned
      ephLookups  |-> 0,      \* get_cached_file_id calls
      usedHandle  |-> None,   \* handle given to send_file as file
      pb          |-> 0,      \* ProgressBar objects constructed
      attempts    |-> 0,      \* download_document bodies entered
      banners     |-> 0,      \* show_banner calls
      created     |-> 0,      \* progress messages sent to the chat
      getIter     |-> 0,      \* ipfs_http_client.get_iter calls
      dlBytes     |-> 0,      \* sum of the len(chunk) passed to
                              \* progress_bar_download.callback
      stream      |-> <<>>,   \* chunks the latest get_iter stream yielded
      terminal    |-> 0,      \* statbox events of a terminal transition
      upCb        |-> 0,      \* progress_bar_upload.callback calls
      handleSends |-> 0,      \* transport send_file calls with a handle
      byteSends   |-> 0,      \* transport send_file calls with bytes
      delivered   |-> 0,      \* transport send_file calls that returned
      uploaded    |-> 0,      \* transport send_file calls with bytes that returned
      fetched     |-> FALSE,  \* download_document returned a payload
      sent        |-> <<>>,   \* payload given to the first byte send
      sendErr     |-> None,   \* failure of the latest transport send_file
                              \* call of a send_file that has not returned
      sendRetried |-> {},     \* failures after which the running send_file
                              \* called the transport again
      cachedErr   |-> None,   \* exception that left the cached send_file
      puts        |-> 0,      \* put_cached_file calls
      putFails    |-> 0,      \* put_cached_file calls that raised
      notFoundTry |-> 0,      \* respond_not_found calls
      notFound    |-> 0,      \* SOURCES_UNAVAILABLE messages sent
      maintTry    |-> 0,      \* MAINTENANCE send_message calls
      maintSent   |-> 0,      \* MAINTENANCE messages sent
      deleteCalls |-> 0,      \* delete_messages calls on the progress message
      cleanups    |-> 0,      \* executions of the finally block
      deregs      |-> 0,      \* registry removals of the task's key
      cancels     |-> 0,      \* CancelledError deliveries
      cancelAt    |-> {},     \* where they were delivered
      fetchErr    |-> None,   \* failure of the running fetch attempt
      retried     |-> {},     \* failures after which the running
                              \* download_document was entered again
      reached     |-> None,   \* exception that reached long_task's try
      caught      |-> None,   \* except clause of long_task that took it
      raised      |-> None,   \* exception that left long_task
      lostCb      |-> None ]  \* phase whose callback raised the lost error

\* ------------------------------------------------------- classifications

\* retry_if_exception_type(TemporaryError); ServiceUnavailableError is a
\* TemporaryError.
IsTemporary(e) == e \in {"Temporary", "ServiceUnavailable"}

\* download_document's @retry with retry_if_exception_type(Exception).
ShouldRetryFetchAnyException(e, k) == e # Cancelled /\ k < FetchAttempts

\* download_document's @retry: another attempt after failure e of attempt k.
ShouldRetryFetch(e, k) == IsTemporary(e) /\ k < FetchAttempts

\* Without reraise=True tenacity raises its RetryError once the attempts
\* are used up.
PropagatedWithoutReraise(e, k) ==
    IF IsTemporary(e) /\ k >= FetchAttempts THEN "RetryError" ELSE e

\* reraise=True: the failure that leaves download_document after attempt k.
Propagated(e, k) == e

\* send_file's @retry with retry_if_exception_type(Exception).
ShouldRetrySendAnyException(e, k) == e # Cancelled /\ k < SendAttempts

\* reraise=True: the failure that leaves send_file after attempt k.
PropagatedSend(e, k) == e

\* send_file's @retry: another attempt after failure e of attempt k.
ShouldRetrySend(e, k) == e \in {"Timeout", "ValueError"} /\ k < SendAttempts

\* The except clauses with DownloadError and ServiceUnavailableError listed
\* in the ProgressBarLostMessageError clause.
ExceptClauseBackendSilent(e) ==
    CASE e \in {"ServiceUnavailable", "DownloadError", "Lost"} -> "user_canceled"
      [] e = Cancelled                                          -> "canceled"
      [] OTHER                                                  -> "propagate"

\* The except clauses of long_task's try, in order.
ExceptClause(e) ==
    CASE e \in {"ServiceUnavailable", "DownloadError"} -> "external_cancel"
      [] e = "Lost"                                     -> "user_canceled"
      [] e = Cancelled                                  -> "canceled"
      [] OTHER                                          -> "propagate"

\* safe_execution suppresses what is an Exception; CancelledError is not one.
Suppressed(e) == e # Cancelled

\* The client-side cache asked first.
CacheLookupEphemeralFirst(d, e) == IF e # None THEN e ELSE d

\* if not telegram_file_id: the client-side cache is asked.
EphemeralConsulted(d) == d = None

\* Durable store first, the client-side cache only when it misses.
CacheLookup(d, e) == IF d # None THEN d ELSE e

\* len(chunk): a chunk is modelled by the number of its bytes.
len(c) == c

\* len(file): the bytes of a payload made of the chunks f.
RECURSIVE PayloadLen(_)
PayloadLen(f) == IF f = <<>> THEN 0 ELSE len(Head(f)) + PayloadLen(Tail(f))

\* A CancelledError can be delivered at an await while cancels are left.
CancelOutcomes == IF hist.cancels < MaxCancels THEN {Cancelled} ELSE {}

\* hist after a CancelledError was delivered at the current position.
NoteCancel(hh, o) ==
    IF o = Cancelled
    THEN [hh EXCEPT !.cancels = @ + 1, !.cancelAt = @ \cup {pc}]
    ELSE hh

\* ------------------------------------------------------ ends of long_task

\* long_task returns.
Return(hh) ==
    /\ pc' = "done"
    /\ pending' = None
    /\ hist' = hh

\* Exception e leaves long_task.
Escape(e, hh) ==
    /\ pc' = "done"
    /\ pending' = None
    /\ hist' = [hh EXCEPT !.raised = e]

\* Leaving the second safe_execution block with exception p (or None):
\* an Exception is logged and on_fail is awaited, a CancelledError passes.
AfterTry(p, hh) ==
    IF p = None THEN Return(hh)
    ELSE IF Suppressed(p)
         THEN /\ pc' = "on_fail"
              /\ pending' = None
              /\ hist' = hh
         ELSE Escape(p, hh)

\* The cleanup placed after the try statement instead of in its finally
\* clause: it is skipped when an exception is in flight.
CleanupAfterTry(p, hh) ==
    IF message # None /\ p = None
    THEN /\ pc' = "cleanup_delete"
         /\ pending' = p
         /\ hist' = [hh EXCEPT !.cleanups = @ + 1]
    ELSE AfterTry(p, hh)

\* The finally block up to its await, entered with exception p in flight.
Finally(p, hh) ==
    IF message # None
    THEN /\ pc' = "cleanup_delete"
         /\ pending' = p
         /\ hist' = [hh EXCEPT !.cleanups = @ + 1]
    ELSE AfterTry(p, [hh EXCEPT !.cleanups = @ + 1])

\* Exception e is raised inside the try block.
Raise(e, hh) ==
    LET c  == ExceptClause(e)
        h2 == [hh EXCEPT !.reached = e, !.caught = c,
                         !.terminal = IF c \in {"user_canceled", "canceled"}
                                      THEN @ + 1 ELSE @]
    IN  IF c = "external_cancel"
        THEN /\ pc' = "external_cancel"
             /\ pending' = None
             /\ hist' = h2
        ELSE Finally(IF c = "propagate" THEN e ELSE None, h2)

\* Failure e of the running attempt of download_document.
FetchFail(e, hh) ==
    LET h2 == [hh EXCEPT !.fetchErr = e] IN
    IF ShouldRetryFetch(e, attempt)
    THEN /\ pc' = "retry_wait"
         /\ pending' = None
         /\ hist' = [h2 EXCEPT !.retried = @ \cup {e}]
    ELSE Raise(Propagated(e, attempt), [h2 EXCEPT !.retried = {}])

\* The cache-miss path up to its first await: the download ProgressBar is
\* constructed and download_document is entered.
EnterMiss(hh) ==
    /\ pc' = "banner"
    /\ pending' = None
    /\ hist' = [hh EXCEPT !.pb = @ + 1, !.attempts = @ + 1]

\* The retry of a failed upload placed around download and upload together:
\* a retried send starts with the download again.
SendFailRefetch(e, hh) ==
    LET h2 == [hh EXCEPT !.sendErr = <<"bytes", e, sendAttempt>>] IN
    IF ShouldRetrySend(e, sendAttempt)
    THEN /\ sendAttempt' = sendAttempt + 1
         /\ pc' = "banner"
         /\ pending' = None
         /\ hist' = [h2 EXCEPT !.sendRetried = @ \cup {e}]
    ELSE /\ sendAttempt' = sendAttempt
         /\ Raise(PropagatedSend(e, sendAttempt),
                  [h2 EXCEPT !.sendRetried = {}])

\* Failure e of the running attempt of send_file with the fetched bytes.
SendFail(e, hh) ==
    LET h2 == [hh EXCEPT !.sendErr = <<"bytes", e, sendAttempt>>] IN
    IF ShouldRetrySend(e, sendAttempt)
    THEN /\ sendAttempt' = sendAttempt + 1
         /\ pc' = "upload"
         /\ pending' = None
         /\ hist' = [h2 EXCEPT !.sendRetried = @ \cup {e}]
    ELSE /\ sendAttempt' = sendAttempt
         /\ Raise(PropagatedSend(e, sendAttempt),
                  [h2 EXCEPT !.sendRetried = {}])

\* ProgressBar.show_banner sends the banner when the bar has no message yet
\* and edits the message it has otherwise; an edit finds the message lost
\* when the requester deleted it.
BannerOutcomes(m) == {"ok", "Other"} \cup (IF m = None THEN {} ELSE {"Lost"})

\* ------------------------------------------------- the steps of long_task

\* await database.get_cached_file, then the client-side lookup and the
\* branch on telegram_file_id.
get_cached_file ==
    /\ pc = "lookup"
    /\ \E o \in {"ok", "Other"} \cup CancelOutcomes :
         IF o = "ok"
         THEN LET id == CacheLookup(durable, ephemeral)
                  hh == [hist EXCEPT
                           !.lookups = @ + 1,
                           !.hit = (id # None),
                           !.durableSeen = durable,
                           !.ephLookups = IF EphemeralConsulted(durable)
                                          THEN @ + 1 ELSE @]
              IN  /\ telegram_file_id' = id
                  /\ IF id # None
                     THEN /\ pc' = "cached_send"
                          /\ pending' = None
                          /\ hist' = hh
                     ELSE EnterMiss(hh)
         ELSE /\ telegram_file_id' = telegram_file_id
              /\ Escape(o, NoteCancel(hist, o))
    /\ UNCHANGED <<durable, ephemeral, message, attempt, sendAttempt,
                   collected, file, registry, handlerVars>>

\* await send_file(file=telegram_file_id) inside the first safe_execution
\* block: one transport call of the retried send_file.  The return
\* statement is inside the block, so it runs only when send_file returned.
send_cached_file ==
    /\ pc = "cached_send"
    /\ \E o \in {"ok", "Timeout", "ValueError", "Other"} \cup CancelOutcomes :
         LET hh == NoteCancel([hist EXCEPT !.handleSends = @ + 1,
                                           !.usedHandle = telegram_file_id],
                              o)
             he == [hh EXCEPT !.sendErr = <<"handle", o, sendAttempt>>]
             x  == PropagatedSend(o, sendAttempt)
         IN
         IF o = "ok"
         THEN /\ sendAttempt' = 1
              /\ Return([hh EXCEPT !.delivered = @ + 1,
                                   !.terminal = @ + 1,
                                   !.sendErr = None, !.sendRetried = {}])
         ELSE IF ShouldRetrySend(o, sendAttempt)
         THEN /\ sendAttempt' = sendAttempt + 1
              /\ pc' = pc
              /\ pending' = None
              /\ hist' = [he EXCEPT !.sendRetried = @ \cup {o}]
         ELSE IF Suppressed(x)
         THEN /\ sendAttempt' = 1
              /\ EnterMiss([he EXCEPT !.cachedErr = x, !.sendRetried = {}])
         ELSE /\ sendAttempt' = sendAttempt
              /\ Escape(x, [he EXCEPT !.cachedErr = x, !.sendRetried = {}])
    /\ UNCHANGED <<durable, ephemeral, telegram_file_id, message, attempt,
                   collected, file, registry, handlerVars>>

\* download_document: await progress_bar.show_banner(), then get_iter(cid).
show_banner ==
    /\ pc = "banner"
    /\ \E o \in BannerOutcomes(message) \cup CancelOutcomes :
         LET hh == NoteCancel([hist EXCEPT !.banners = @ + 1], o) IN
         IF o = "ok"
         THEN /\ message' = "m1"
              /\ pc' = "read"
              /\ pending' = None
              /\ hist' = [hh EXCEPT
                            !.created = IF message = None THEN @ + 1 ELSE @,
                            !.getIter = @ + 1,
                            !.stream = <<>>]
         ELSE /\ message' = message
              /\ FetchFail(o, hh)
    /\ UNCHANGED <<durable, ephemeral, telegram_file_id, attempt, sendAttempt,
                   collected, file, registry, handlerVars>>

\* download_document: one step of the async for.  The stream yields a chunk,
\* ends (download_document returns and long_task branches on the payload),
\* or raises.
read_chunk ==
    /\ pc = "read"
    /\ \/ /\ Len(collected) < MaxChunks
          /\ \E c \in Chunks :
                /\ collected' = Append(collected, c)
                /\ hist' = [hist EXCEPT !.stream = Append(@, c)]
          /\ pc' = "dl_callback"
          /\ UNCHANGED <<pending, file, sendAttempt>>
       \/ /\ file' = collected
          /\ sendAttempt' = 1
          /\ pending' = None
          /\ IF collected # <<>>
             THEN /\ pc' = "upload"
                  /\ hist' = [hist EXCEPT !.fetched = TRUE, !.pb = @ + 1,
                                          !.retried = {}]
             ELSE /\ pc' = "respond_not_found"
                  /\ hist' = [hist EXCEPT !.fetched = TRUE,
                                          !.terminal = @ + 1,
                                          !.retried = {}]
          /\ UNCHANGED collected
       \/ /\ \E o \in {"Temporary", "ServiceUnavailable", "DownloadError",
                       "Other"} \cup CancelOutcomes :
                FetchFail(o, NoteCancel(hist, o))
          /\ UNCHANGED <<collected, file, sendAttempt>>
    /\ UNCHANGED <<durable, ephemeral, telegram_file_id, message, attempt,
                   registry, handlerVars>>

\* download_document: await progress_bar.callback(len(chunk), filesize).
download_callback ==
    /\ pc = "dl_callback"
    /\ \E o \in {"ok", "Lost", "Other"} \cup CancelOutcomes :
         LET hh == NoteCancel(
                     [hist EXCEPT !.dlBytes = @ + len(collected[Len(collected)]),
                                  !.lostCb = IF o = "Lost" THEN "download" ELSE @],
                     o)
         IN  IF o = "ok"
             THEN /\ pc' = "read"
                  /\ pending' = None
                  /\ hist' = hh
             ELSE FetchFail(o, hh)
    /\ UNCHANGED <<durable, ephemeral, telegram_file_id, message, attempt,
                   sendAttempt, collected, file, registry, handlerVars>>

\* The wait between two attempts with the bytearray created once, outside
\* the retried function: the next attempt extends what the failed one left.
retry_wait_shared_buffer ==
    /\ pc = "retry_wait"
    /\ \E o \in {"ok"} \cup CancelOutcomes :
         IF o = "ok"
         THEN /\ attempt' = attempt + 1
              /\ collected' = collected
              /\ pc' = "banner"
              /\ pending' = None
              /\ hist' = [hist EXCEPT !.attempts = @ + 1, !.fetchErr = None]
         ELSE /\ UNCHANGED <<attempt, collected>>
              /\ Raise(o, NoteCancel([hist EXCEPT !.retried = {}], o))
    /\ UNCHANGED <<durable, ephemeral, telegram_file_id, message, sendAttempt,
                   file, registry, handlerVars>>

\* tenacity's wait_fixed(5.0) between two attempts of download_document,
\* then the next attempt starts with a fresh bytearray.
retry_wait ==
    /\ pc = "retry_wait"
    /\ \E o \in {"ok"} \cup CancelOutcomes :
         IF o = "ok"
         THEN /\ attempt' = attempt + 1
              /\ collected' = <<>>
              /\ pc' = "banner"
              /\ pending' = None
              /\ hist' = [hist EXCEPT !.attempts = @ + 1, !.fetchErr = None]
         ELSE /\ UNCHANGED <<attempt, collected>>
              /\ Raise(o, NoteCancel([hist EXCEPT !.retried = {}], o))
    /\ UNCHANGED <<durable, ephemeral, telegram_file_id, message, sendAttempt,
                   file, registry, handlerVars>>

\* send_file(file=file): the transport's send_file is called with the bytes.
send_file_call ==
    /\ pc = "upload"
    /\ pc' = "uploading"
    /\ hist' = [hist EXCEPT !.byteSends = @ + 1,
                            !.sent = IF hist.byteSends = 0 THEN file ELSE @]
    /\ UNCHANGED <<pending, durable, ephemeral, telegram_file_id, message,
                   attempt, sendAttempt, collected, file, registry, handlerVars>>

\* The transport invokes progress_bar_upload.callback during the upload.
upload_callback ==
    /\ pc = "uploading"
    /\ hist.upCb < MaxUpCallbacks
    /\ \E o \in {"ok", "Lost"} :
         LET hh == [hist EXCEPT !.upCb = @ + 1,
                                !.lostCb = IF o = "Lost" THEN "upload" ELSE @]
         IN  IF o = "ok"
             THEN /\ hist' = hh
                  /\ UNCHANGED <<pc, pending, sendAttempt>>
             ELSE SendFail(o, hh)
    /\ UNCHANGED <<durable, ephemeral, telegram_file_id, message, attempt,
                   collected, file, registry, handlerVars>>

\* The transport's send_file returns the uploaded message or raises.
send_file_result ==
    /\ pc = "uploading"
    /\ \E o \in {"ok", "Timeout", "ValueError", "Other"} \cup CancelOutcomes :
         LET hh == NoteCancel(hist, o) IN
         IF o = "ok"
         THEN /\ pc' = "put"
              /\ pending' = None
              /\ hist' = [hh EXCEPT !.delivered = @ + 1, !.uploaded = @ + 1,
                                    !.sendErr = None, !.sendRetried = {}]
              /\ UNCHANGED sendAttempt
         ELSE SendFail(o, hh)
    /\ UNCHANGED <<durable, ephemeral, telegram_file_id, message, attempt,
                   collected, file, registry, handlerVars>>

\* put_cached_file wrapped in a retry of its own: a failed put is repeated
\* once.
put_cached_file_retried ==
    /\ pc = "put"
    /\ \E o \in {"ok", "Other"} \cup CancelOutcomes :
         LET hh == NoteCancel(
                     [hist EXCEPT !.puts = @ + 1,
                                  !.putFails = IF o = "Other" THEN @ + 1 ELSE @],
                     o)
         IN  IF o = "ok"
             THEN /\ durable' = "hU"
                  /\ Finally(None, [hh EXCEPT !.terminal = @ + 1])
             ELSE IF o = "Other" /\ hist.puts = 0
             THEN /\ durable' = durable
                  /\ pc' = pc
                  /\ pending' = None
                  /\ hist' = hh
             ELSE /\ durable' = durable
                  /\ Raise(o, hh)
    /\ UNCHANGED <<ephemeral, telegram_file_id, message, attempt, sendAttempt,
                   collected, file, registry, handlerVars>>

\* await database.put_cached_file(bot_name, cid, uploaded_message.file.id).
put_cached_file ==
    /\ pc = "put"
    /\ \E o \in {"ok", "Other"} \cup CancelOutcomes :
         LET hh == NoteCancel(
                     [hist EXCEPT !.puts = @ + 1,
                                  !.putFails = IF o = "Other" THEN @ + 1 ELSE @],
                     o)
         IN  IF o = "ok"
             THEN /\ durable' = "hU"
                  /\ Finally(None, [hh EXCEPT !.terminal = @ + 1])
             ELSE /\ durable' = durable
                  /\ Raise(o, hh)
    /\ UNCHANGED <<ephemeral, telegram_file_id, message, attempt, sendAttempt,
                   collected, file, registry, handlerVars>>

\* await self.respond_not_found(...): the SOURCES_UNAVAILABLE message.
respond_not_found ==
    /\ pc = "respond_not_found"
    /\ \E o \in {"ok", "Other"} \cup CancelOutcomes :
         LET hh == NoteCancel([hist EXCEPT !.notFoundTry = @ + 1], o) IN
         IF o = "ok"
         THEN Finally(None, [hh EXCEPT !.notFound = @ + 1])
         ELSE Raise(o, hh)
    /\ UNCHANGED <<durable, ephemeral, telegram_file_id, message, attempt,
                   sendAttempt, collected, file, registry, handlerVars>>

\* except (ServiceUnavailableError, DownloadError): await external_cancel().
\* LongTask.external_cancel notifies the requester with the maintenance
\* message; a failure of the notification is logged, not raised.
external_cancel ==
    /\ pc = "external_cancel"
    /\ \E o \in {"ok", "Other"} \cup CancelOutcomes :
         LET hh == NoteCancel([hist EXCEPT !.maintTry = @ + 1], o) IN
         IF o = "ok"
         THEN Finally(None, [hh EXCEPT !.maintSent = @ + 1])
         ELSE IF o = Cancelled
         THEN Finally(Cancelled, hh)
         ELSE Finally(None, hh)
    /\ UNCHANGED <<durable, ephemeral, telegram_file_id, message, attempt,
                   sendAttempt, collected, file, registry, handlerVars>>

\* finally: await delete_messages(chat_id, [progress_bar_download.message])
\* inside its own safe_execution block, then the debug log.
delete_messages ==
    /\ pc = "cleanup_delete"
    /\ \E o \in {"ok", "Other"} \cup CancelOutcomes :
         LET hh == NoteCancel([hist EXCEPT !.deleteCalls = @ + 1], o) IN
         IF o = Cancelled
         THEN AfterTry(Cancelled, hh)
         ELSE AfterTry(pending, hh)
    /\ UNCHANGED <<durable, ephemeral, telegram_file_id, message, attempt,
                   sendAttempt, collected, file, registry, handlerVars>>

\* safe_execution awaits on_fail: _on_fail sends the MAINTENANCE message;
\* what _on_fail raises is logged by safe_execution.
on_fail ==
    /\ pc = "on_fail"
    /\ \E o \in {"ok", "Other"} \cup CancelOutcomes :
         LET hh == NoteCancel([hist EXCEPT !.maintTry = @ + 1], o) IN
         IF o = "ok"
         THEN Return([hh EXCEPT !.maintSent = @ + 1])
         ELSE IF o = Cancelled
         THEN Escape(o, hh)
         ELSE Return(hh)
    /\ UNCHANGED <<durable, ephemeral, telegram_file_id, message, attempt,
                   sendAttempt, collected, file, registry, handlerVars>>

\* LongTask's done callback: the task's key leaves the registry.
done_callback ==
    /\ pc = "done"
    /\ pc' = "finished"
    /\ registry' = registry \ {TaskKey}
    /\ hist' = [hist EXCEPT !.deregs = @ + 1]
    /\ UNCHANGED <<pending, durable, ephemeral, telegram_file_id, message,
                   attempt, sendAttempt, collected, file, handlerVars>>

\* A task that LongTask.schedule has just registered and started.
Init ==
    /\ pc = "lookup"
    /\ pending = None
    /\ durable \in {None, "hD"}
    /\ ephemeral \in {None, "hE"}
    /\ telegram_file_id = None
    /\ message = None
    /\ attempt = 1
    /\ sendAttempt = 1
    /\ collected = <<>>
    /\ file = <<>>
    /\ registry = {TaskKey}
    /\ hist = Hist0
    /\ hpc = [h \in Handlers |-> "idle"]
    /\ hkey = [h \in Handlers |-> None]
    /\ hseen = [h \in Handlers |-> {}]
    /\ tstate = [h \in Handlers |-> "none"]

Next ==
    \/ get_cached_file
    \/ send_cached_file
    \/ show_banner
    \/ read_chunk
    \/ download_callback
    \/ retry_wait
    \/ send_file_call
    \/ upload_callback
    \/ send_file_result
    \/ put_cached_file
    \/ respond_not_found
    \/ external_cancel
    \/ delete_messages
    \/ on_fail
    \/ done_callback

Spec == Init /\ [][Next]_vars

\* ------------------------------------------- DownloadHandler.handler

\* user_manager.has_task(chat_id, task_id).
has_task(k) == k \in registry

\* user_manager.hit_limits(chat_id).
hit_limits == Cardinality(registry) >= TaskLimit

\* From the hit_limits test to the handler's next await.
AfterDuplicateBlock == IF hit_limits THEN "limit_answer" ELSE "remove_button"

\* From the has_task test to the handler's next await.
AfterLookup(k) == IF has_task(k) THEN "dup_answer" ELSE AfterDuplicateBlock

\* What the handler has been told once it is past the hit_limits test.
SeenAfterDuplicateBlock ==
    {"limit_checked"} \cup (IF hit_limits THEN {"limit"} ELSE {})

\* What the handler has been told once it is past the has_task test.
SeenAfterLookup(k) == IF has_task(k) THEN {"dup"} ELSE SeenAfterDuplicateBlock

\* LongTask.schedule: the key is registered and the task is created.
schedule(h) ==
    /\ registry' = registry \cup {hkey[h]}
    /\ tstate' = [tstate EXCEPT ![h] = "scheduled"]

\* parse_pattern, then await get_scored_document(...), then the has_task and
\* hit_limits tests.
get_scored_document(h) ==
    /\ hpc[h] = "idle"
    /\ \E k \in Keys :
         /\ hkey' = [hkey EXCEPT ![h] = k]
         /\ \E o \in {"ok", "Other"} :
              /\ hpc' = [hpc EXCEPT ![h] = IF o = "ok" THEN AfterLookup(k)
                                            ELSE "done"]
              /\ hseen' = [hseen EXCEPT ![h] = IF o = "ok" THEN SeenAfterLookup(k)
                                                ELSE @]
    /\ UNCHANGED <<tstate, registry, taskVars>>

\* await event.answer(ALREADY_DOWNLOADING) inside safe_execution.
answer_duplicate(h) ==
    /\ hpc[h] = "dup_answer"
    /\ \E o \in {"ok", "Other"} :
         /\ hpc' = [hpc EXCEPT ![h] = IF o = "ok" THEN "dup_remove"
                                       ELSE AfterDuplicateBlock]
         /\ hseen' = [hseen EXCEPT ![h] = IF o = "ok" THEN @
                                           ELSE @ \cup SeenAfterDuplicateBlock]
    /\ UNCHANGED <<hkey, tstate, registry, taskVars>>

\* await remove_button(...) inside the same block, then return.
remove_button_duplicate(h) ==
    /\ hpc[h] = "dup_remove"
    /\ \E o \in {"ok", "Other"} :
         /\ hpc' = [hpc EXCEPT ![h] = IF o = "ok" THEN "done"
                                       ELSE AfterDuplicateBlock]
         /\ hseen' = [hseen EXCEPT ![h] = IF o = "ok" THEN @
                                           ELSE @ \cup SeenAfterDuplicateBlock]
    /\ UNCHANGED <<hkey, tstate, registry, taskVars>>

\* return await event.answer(TOO_MANY_DOWNLOADS) inside safe_execution.
answer_limit(h) ==
    /\ hpc[h] = "limit_answer"
    /\ \E o \in {"ok", "Other"} :
         hpc' = [hpc EXCEPT ![h] = IF o = "ok" THEN "done"
                                    ELSE "remove_button"]
    /\ UNCHANGED <<hkey, hseen, tstate, registry, taskVars>>

\* await remove_button(...), then DownloadTask(...).schedule().
remove_button(h) ==
    /\ hpc[h] = "remove_button"
    /\ hpc' = [hpc EXCEPT ![h] = "done"]
    /\ \E o \in {"ok", "Other"} :
         IF o = "ok"
         THEN schedule(h)
         ELSE UNCHANGED <<tstate, registry>>
    /\ UNCHANGED <<hkey, hseen, taskVars>>

\* The scheduled task starts to run long_task.
task_start(h) ==
    /\ tstate[h] = "scheduled"
    /\ tstate' = [tstate EXCEPT ![h] = "running"]
    /\ UNCHANGED <<hpc, hkey, hseen, registry, taskVars>>

\* The task ends and its done callback removes its key.
task_done(h) ==
    /\ tstate[h] = "running"
    /\ tstate' = [tstate EXCEPT ![h] = "done"]
    /\ registry' = registry \ {hkey[h]}
    /\ UNCHANGED <<hpc, hkey, hseen, taskVars>>

\* No task is registered and no request has arrived.
HandlerInit ==
    /\ pc = "lookup"
    /\ pending = None
    /\ durable = None
    /\ ephemeral = None
    /\ telegram_file_id = None
    /\ message = None
    /\ attempt = 1
    /\ sendAttempt = 1
    /\ collected = <<>>
    /\ file = <<>>
    /\ registry = {}
    /\ hist = Hist0
    /\ hpc = [h \in Handlers |-> "idle"]
    /\ hkey = [h \in Handlers |-> None]
    /\ hseen = [h \in Handlers |-> {}]
    /\ tstate = [h \in Handlers |-> "none"]

HandlerNext ==
    \E h \in Handlers :
        \/ get_scored_document(h)
        \/ answer_duplicate(h)
        \/ remove_button_duplicate(h)
        \/ answer_limit(h)
        \/ remove_button(h)
        \/ task_start(h)
        \/ task_done(h)

HandlerSpec == HandlerInit /\ [][HandlerNext]_vars

\* ------------------------------------------------------------ properties

Transient  == {"Temporary", "ServiceUnavailable"}
FetchPcs   == {"banner", "read", "dl_callback", "retry_wait"}
Live(h)    == tstate[h] \in {"scheduled", "running"}

\* C1: when the cache lookup returned a handle, get_iter is never called, no
\* byte payload is given to the transport and no ProgressBar is constructed,
\* whatever the delivery of the cached handle does.
C1_CacheHitShortCircuits ==
    hist.hit => hist.getIter = 0 /\ hist.byteSends = 0 /\ hist.pb = 0

\* C2: two handler invocations never have live tasks for the same task key
\* at the same time.
C2_OneLiveTaskPerKey ==
    \A a, b \in Handlers :
        (a # b /\ Live(a) /\ Live(b)) => hkey[a] # hkey[b]

C4_OneOutcome ==
    Cardinality({o \in {"delivered", "notFound", "maintSent"} : hist[o] > 0}) <= 1

\* C5: when put_cached_file raised after the upload, no MAINTENANCE message
\* is sent, nothing is raised out of the task and the cleanup runs.
C5_PutFailureSwallowed ==
    hist.putFails > 0 =>
        /\ hist.maintTry = 0
        /\ pc = "finished" => hist.raised = None /\ hist.cleanups = 1

\* C6: download_document is entered at most 3 times; it is entered again
\* only after a transient failure; and a failure that ends the third
\* attempt, like one that is not transient, reaches long_task as it was
\* raised.
C6_FetchRetryBounded ==
    /\ hist.attempts <= 3
    /\ hist.retried \subseteq Transient
    /\ (pc \in FetchPcs /\ hist.attempts > 1) => hist.retried # {}
    /\ (hist.fetchErr # None /\ (hist.fetchErr \notin Transient \/ hist.attempts = 3)) =>
          hist.reached = hist.fetchErr /\ pc # "retry_wait"
    /\ pc = "retry_wait" => hist.fetchErr \in Transient /\ hist.attempts < 3

C6_Witness ==
    /\ hist.attempts = 3
    /\ hist.fetchErr = "Temporary"
    /\ hist.reached = "Temporary"
    /\ hist.getIter = 3

C8_LostMessageIsSilentCancel ==
    hist.lostCb # None =>
        /\ pc \in {"cleanup_delete", "done", "finished"}
        /\ hist.caught = "user_canceled"
        /\ hist.maintTry = 0
        /\ hist.raised \in {None, Cancelled}
        /\ pc = "finished" =>
             hist.cleanups = 1 /\ hist.deleteCalls = hist.created

C8_Witness ==
    /\ pc = "finished"
    /\ hist.lostCb = "upload"
    /\ hist.byteSends = 1
    /\ hist.deleteCalls = 1

\* C9: a CancelledError delivered at an await of long_task does not leave
\* long_task, no MAINTENANCE message is sent once it was delivered, and when
\* the task has ended every progress message it created was deleted.
C9_CancellationAbsorbed ==
    hist.cancels > 0 =>
        /\ hist.raised # Cancelled
        /\ hist.caught = "canceled" => hist.maintTry = 0
        /\ pc = "finished" => hist.deleteCalls = hist.created

\* C10: get_iter is called only after the cache lookup completed; bytes are
\* given to the transport only after download_document returned, and they
\* are the payload it returned; put_cached_file is called only after
\* send_file returned a message; and no download-phase progress callback
\* follows an upload-phase one.
C10_PhasesSequential ==
    /\ [](/\ hist.getIter > 0 => hist.lookups = 1
          /\ hist.byteSends > 0 =>
                hist.fetched /\ hist.sent = file /\ pc \notin FetchPcs
          /\ hist.puts > 0 => hist.delivered > 0)
    /\ [][(hist.upCb > 0 \/ hist.byteSends > 0) =>
              (hist'.dlBytes = hist.dlBytes /\ hist'.getIter = hist.getIter)]_vars

C10_Witness ==
    /\ pc = "finished"
    /\ hist.dlBytes = PayloadLen(file)
    /\ hist.upCb = 1
    /\ hist.puts = 1
    /\ hist.sent = file
    /\ Len(file) = 2


\* download_document returned without error and without a byte.
EmptyFetch == hist.fetched /\ file = <<>>

\* C11: when the fetch ended without error and without a byte,
\* respond_not_found is called once and never twice, send_file is never
\* called, put_cached_file is never called, and the cleanup runs.
C11_EmptyFetchIsNotFound ==
    EmptyFetch =>
        /\ hist.notFoundTry <= 1
        /\ hist.handleSends = 0
        /\ hist.byteSends = 0
        /\ hist.puts = 0
        /\ pc = "finished" => hist.notFoundTry = 1 /\ hist.cleanups = 1


\* The cached handle was delivered.
CachedDelivered == hist.delivered > 0 /\ hist.uploaded = 0

C13_LimitBlocksScheduling ==
    \A h \in Handlers : "limit" \in hseen[h] => tstate[h] = "none"

\* C20: a handler invocation that found has_task true does not go on to the
\* hit_limits test and schedules no task, whatever event.answer and
\* remove_button do.
C20_DuplicateReturns ==
    \A h \in Handlers :
        "dup" \in hseen[h] =>
            "limit_checked" \notin hseen[h] /\ tstate[h] = "none"


\* C14: the client-side cache is asked exactly when the durable store
\* returned nothing; the handle long_task holds, and gives to send_file, is
\* the durable store's when it returned one and the client-side cache's
\* otherwise; and the miss path is taken without a cached delivery only when
\* both returned nothing.
C14_DurableBeforeEphemeral ==
    hist.lookups = 1 =>
        /\ hist.ephLookups = (IF hist.durableSeen = None THEN 1 ELSE 0)
        /\ telegram_file_id =
              (IF hist.durableSeen # None THEN hist.durableSeen ELSE ephemeral)
        /\ hist.hit <=> (hist.durableSeen # None \/ ephemeral # None)
        /\ hist.handleSends > 0 =>
              hist.hit /\ hist.usedHandle = telegram_file_id
        /\ (~hist.hit) => hist.handleSends = 0
        /\ (hist.hit /\ pc # "cached_send") => hist.handleSends > 0

C14_Witness ==
    /\ pc = "finished"
    /\ hist.durableSeen = "hD"
    /\ ephemeral = "hE"
    /\ hist.usedHandle = "hD"
    /\ hist.ephLookups = 0
    /\ hist.delivered = 1


RetriedBySend == {"Timeout", "ValueError"}

\* C15: a delivery calls the transport's send_file at most 3 times, for the
\* cached handle as for the bytes; it calls again only after a timeout or a
\* ValueError; and a failure that is of another kind, or that ends the third
\* call, leaves send_file as it was raised, with no further call.
C15_SendRetryBounded ==
    /\ hist.handleSends <= 3
    /\ hist.byteSends <= 3
    /\ hist.sendRetried \subseteq RetriedBySend
    /\ pc = "cached_send" =>
          /\ hist.handleSends = sendAttempt - 1
          /\ sendAttempt > 1 => hist.sendRetried # {}
    /\ pc = "upload" =>
          /\ hist.byteSends = sendAttempt - 1
          /\ sendAttempt > 1 => hist.sendRetried # {}
    /\ pc = "uploading" => hist.byteSends = sendAttempt
    /\ hist.sendErr # None =>
         LET kind == hist.sendErr[1]
             e    == hist.sendErr[2]
             k    == hist.sendErr[3]
         IN  IF e \in RetriedBySend /\ k < 3
             THEN /\ e \in hist.sendRetried
                  /\ pc \in (IF kind = "handle" THEN {"cached_send"}
                             ELSE {"upload", "uploading"})
             ELSE IF kind = "handle"
                  THEN /\ hist.cachedErr = e
                       /\ pc # "cached_send"
                       /\ hist.handleSends = k
                  ELSE /\ hist.reached = e
                       /\ pc \notin {"upload", "uploading"}
                       /\ hist.byteSends = k

C15_Witness ==
    /\ pc = "finished"
    /\ hist.handleSends = 3
    /\ hist.cachedErr = "ValueError"
    /\ hist.byteSends = 3
    /\ hist.sendErr = <<"bytes", "Timeout", 3>>
    /\ hist.reached = "Timeout"


\* C16: when download_document has returned, the bytes passed to the
\* download-phase progress callback, summed over all attempts, are as many
\* as the bytes of the returned payload.
C16_ByteCountAccurate ==
    (hist.fetched /\ file # <<>>) => hist.dlBytes = PayloadLen(file)

\* C17: show_banner is invoked exactly once on the cache-miss path, before
\* the first get_iter and not again on a retry; at most one progress message
\* is created and the cleanup deletes at most one.
C17_BannerOnce ==
    /\ hist.banners <= 1
    /\ hist.getIter > 0 => hist.banners = 1
    /\ hist.created <= 1
    /\ hist.deleteCalls <= 1

\* C18: the payload download_document returned is the sequence of chunks
\* that the get_iter stream of its last attempt yielded, in their order,
\* each once, with no chunk of an earlier attempt.
C18_PayloadIsLastStream ==
    hist.fetched => file = hist.stream

C18_Witness ==
    /\ hist.fetched
    /\ hist.attempts = 2
    /\ file = <<2, 1>>
    /\ hist.dlBytes > PayloadLen(file)

\* statbox(action='do_request') opens every attempt of download_document.
StartEvents == hist.attempts

\* C19: a run of long_task emits at most one start event, and when it has
\* ended without an exception leaving it, it has emitted exactly one start
\* event and exactly one terminal event.
C19_OneStartOneTerminal ==
    /\ StartEvents <= 1
    /\ (pc \in {"done", "finished"} /\ hist.raised = None) =>
          StartEvents = 1 /\ hist.terminal = 1

====
